---- MODULE Spec2Model ----
(***************************************************************************)
(* Task lifecycle of the AI service: the domain operation services         *)
(* (generate_social_post, translate, batch_translate, enhance_content,     *)
(* generate_image) and the task service (reject_task, approve_task,        *)
(* update_task), each acting on the committed rows of the database.        *)
(*                                                                         *)
(* One run is one request: a coroutine with its own database session.      *)
(* Every `await` (a commit, a query, the provider call) is a suspension    *)
(* point, so an action is the code between two awaits together with the    *)
(* database effect of the commit that ends it.  A commit writes only the   *)
(* attributes the coroutine assigned since its last commit.                *)
(*                                                                         *)
(* The AITaskCreate(...) calls of the services are taken to construct the  *)
(* schema object they are written to construct.                            *)
(*                                                                         *)
(* The automation service (its workflow registry and execution history    *)
(* are class attributes, and none of its operations reaches a suspension   *)
(* point) and the template service answer a call in one step; `reply` is   *)
(* what the last such call returned or raised.                             *)
(*                                                                         *)
(* The generated content endpoints (publish_content, update_content) are   *)
(* modelled as one step each.  The gateway's batch_generate is a gather    *)
(* over one generate_text per prompt, each finishing in its own step.      *)
(* SpecIncrement runs increment_usage in two steps (the load and the       *)
(* commit) for concurrent requests; elsewhere a single caller runs it in   *)
(* one step.                                                               *)
(***************************************************************************)
EXTENDS Integers, Sequences, FiniteSets, TLC

\* ---------------------------------------------------------------- bounds
MaxTasks == 2
MaxRuns == 1
MaxBatch == 2
MaxAdminCalls == 2
MaxLangs == 3
MaxWorkflows == 2
MaxHistory == 2
MaxLimit == 3
MaxUsage == 2

\* ------------------------------------------------------------- constants
NoneVal == "None"

\* TaskStatus, src/app/models/ai_task.py
PENDING == "pending"
PROCESSING == "processing"
COMPLETED == "completed"
FAILED == "failed"
CANCELLED == "cancelled"
TaskStatus == {PENDING, PROCESSING, COMPLETED, FAILED, CANCELLED}

SUPPORTED_LANGUAGES == {"en", "es", "fr", "pt"}
ENHANCEMENT_TYPES == {"grammar", "tone", "seo", "summarize", "improve"}
SUPPORTED_SIZES == {"256x256", "512x512", "1024x1024", "1024x1792", "1792x1024"}

\* inputs the requests are drawn from
Texts == {"Hello", "Welcome"}
SourceLangs == {"en", "de"}
TargetLangs == {"es", "de"}
EnhancementInputs == {"grammar", "rewrite"}
SizeInputs == {"512x512", "64x64"}
Reasons == {NoneVal, "off-brand"}
Users == {"u1"}
TemplateIds == {"t1", "t2"}
TemplateInputs == {NoneVal, "t1", "t2", "t3"}
RunIds == 1..MaxRuns
WorkflowIdInputs == 1..MaxWorkflows

\* str(e) of the exceptions a run can end with
ValueErrorExc == "ValueError"
KeyErrorExc == "KeyError"
ProviderErrorExc == "ApiException"
PendingRollbackExc == "PendingRollbackError"
TypeErrorExc == "TypeError"

VARIABLES tasks, jobs, contents, templates, runs, admin_calls,
          workflows, workflow_history, uuids, reply

\* AutomationService._workflows and _workflow_history, and the number of
\* uuid4() workflow ids issued so far
automationVars == <<workflows, workflow_history, uuids>>

vars == <<tasks, jobs, contents, templates, runs, admin_calls, automationVars, reply>>

\* ------------------------------------------------------------------ rows
\* AITask(...) as create_task builds it: status pending, nothing else set
NewTask ==
  [status |-> PENDING, output_data |-> NoneVal, error_message |-> NoneVal,
   approved |-> FALSE, approved_by |-> NoneVal, approved_at |-> NoneVal]

create_task(ts) == Append(ts, NewTask)

TaskIdInputs == 1..MaxTasks
TaskExists(t) == t \in 1..Len(tasks)

IdleRun ==
  [op |-> NoneVal, pc |-> "idle", task |-> 0, job |-> 0, called |-> FALSE,
   provider_result |-> NoneVal, session_failed |-> FALSE, outcome |-> NoneVal, template_id |-> NoneVal,
   texts |-> <<>>, idx |-> 0, results |-> <<>>,
   source_lang |-> NoneVal, target_lang |-> NoneVal, arg |-> NoneVal,
   content |-> 0, langs |-> <<>>, translations |-> <<>>, workflow |-> 0]

\* the two templates of the store: the second names a field that
\* generate_social_post does not supply to format()
\* what the last call of a service that is not a run returned or raised
NoReply == [op |-> NoneVal]

\* A prompt_template is its text cut at the replacement fields: a sequence
\* of literal pieces and {name} fields.
\* extract_variables: the distinct names the pattern \{([^}]+)\} finds
extract_variables(template_text) ==
  { template_text[i].field :
      i \in { j \in 1..Len(template_text) : "field" \in DOMAIN template_text[j] } }

\* ContentTemplate(...) as create_template builds it, lines 50-65: variables
\* extracted from the prompt template, is_active=True, usage_count=0
NewTemplate(prompt_template) ==
  [prompt_template |-> prompt_template,
   variables |-> extract_variables(prompt_template),
   is_active |-> TRUE, usage_count |-> 0]

InitTemplates ==
  [i \in TemplateIds |->
     IF i = "t1"
     THEN NewTemplate(<<[lit |-> "Post about "], [field |-> "topic"],
                        [lit |-> " in tone "], [field |-> "tone"]>>)
     ELSE NewTemplate(<<[lit |-> "Post for "], [field |-> "audience"]>>)]

Init ==
  /\ tasks = <<>>
  /\ jobs = <<>>
  /\ contents = <<>>
  /\ templates = InitTemplates
  /\ runs = [r \in RunIds |-> IdleRun]
  /\ admin_calls = 0
  /\ workflows = <<>>
  /\ workflow_history = <<>>
  /\ uuids = 0
  /\ reply = NoReply

\* ---------------------------------------------------- task service
RejectMessage(reason) ==
  "Rejected by user: " \o (IF reason = NoneVal THEN "No reason provided" ELSE reason)

\* a rejection that sets the status alone
RejectRow_StatusOnly(row, reason) == [row EXCEPT !.status = CANCELLED]

\* reject_task: unconditional status = CANCELLED, error_message = reason
RejectRow(row, reason) ==
  [row EXCEPT !.status = CANCELLED, !.error_message = RejectMessage(reason)]

reject_task(t, reason) ==
  /\ TaskExists(t)
  /\ admin_calls < MaxAdminCalls
  /\ admin_calls' = admin_calls + 1
  /\ tasks' = [tasks EXCEPT ![t] = RejectRow(tasks[t], reason)]
  /\ UNCHANGED <<jobs, contents, templates, runs, automationVars, reply>>

\* an approval that sets the flag alone
ApproveRow_FlagOnly(row, approved_by) == [row EXCEPT !.approved = TRUE]

ApproveRow(row, approved_by) ==
  [row EXCEPT !.approved = TRUE, !.approved_by = approved_by, !.approved_at = "utcnow"]

approve_task(t, approved_by) ==
  /\ TaskExists(t)
  /\ admin_calls < MaxAdminCalls
  /\ admin_calls' = admin_calls + 1
  /\ tasks' = [tasks EXCEPT ![t] = ApproveRow(tasks[t], approved_by)]
  /\ UNCHANGED <<jobs, contents, templates, runs, automationVars, reply>>

\* AITaskUpdate payloads (model_dump(exclude_unset=True)): the fields set
UpdatePayloads ==
  { [status |-> s] : s \in TaskStatus }
    \cup { [output_data |-> "patched"], [error_message |-> "patched"],
           [approved |-> TRUE], [approved_by |-> "u1"] }

\* for field, value in update_data.items(): setattr(task, field, value)
ApplyUpdate(row, update_data) ==
  [f \in DOMAIN row |-> IF f \in DOMAIN update_data THEN update_data[f] ELSE row[f]]

update_task(t, task_data) ==
  /\ TaskExists(t)
  /\ admin_calls < MaxAdminCalls
  /\ admin_calls' = admin_calls + 1
  /\ tasks' = [tasks EXCEPT ![t] = ApplyUpdate(tasks[t], task_data)]
  /\ UNCHANGED <<jobs, contents, templates, runs, automationVars, reply>>

\* ---------------------------------------------------- attribute writes
\* task.status = TaskStatus.PROCESSING; await db.commit()
ProcessingRow(row) == [row EXCEPT !.status = PROCESSING]

\* task.status = TaskStatus.COMPLETED; task.output_data = result; commit
CompletedRow(row, result) == [row EXCEPT !.status = COMPLETED, !.output_data = result]

\* the handler without its error_message assignment
FailedRow_NoMessage(row, e) == [row EXCEPT !.status = FAILED]

\* except Exception as e: task.status = FAILED; task.error_message = str(e)
FailedRow(row, e) == [row EXCEPT !.status = FAILED, !.error_message = e]

\* ---------------------------------------------------- translation service
\* abacus_client.translate_text: the provider's answer for a text
translate_text(text) == "[translated] " \o text

\* the validation without its target-language check
ValidLanguages_SourceOnly(source_lang, target_lang) ==
  source_lang \in SUPPORTED_LANGUAGES

\* lines 48-51: both languages must be supported
ValidLanguages(source_lang, target_lang) ==
  source_lang \in SUPPORTED_LANGUAGES /\ target_lang \in SUPPORTED_LANGUAGES

\* the loop body without its try/except: the first failure ends the batch
batch_translate_failfast(run, raised, value) ==
  IF raised
  THEN [run EXCEPT !.pc = "done", !.outcome = value]
  ELSE IF run.idx < Len(run.texts)
  THEN [run EXCEPT !.results = Append(@, value), !.idx = @ + 1, !.pc = "loop",
                   !.provider_result = NoneVal]
  ELSE [run EXCEPT !.results = Append(@, value), !.pc = "done", !.outcome = "returned"]

\* batch_translate's loop body around one translate call: a result is
\* appended, an exception becomes an error entry, and the loop goes on
batch_translate_collect(run, raised, value) ==
  LET entry == IF raised THEN [error |-> value, text |-> run.texts[run.idx]] ELSE value
      results == Append(run.results, entry)
  IN IF run.idx < Len(run.texts)
     THEN [run EXCEPT !.results = results, !.idx = @ + 1, !.pc = "loop",
                      !.provider_result = NoneVal]
     ELSE [run EXCEPT !.results = results, !.pc = "done", !.outcome = "returned"]

\* the operations that call translate
TranslateCallers == {"translate", "batch_translate", "auto_translate_content"}

\* auto_translate_content, line 193: the target language is the content's own
IsSourceLanguage_Never(target_lang, language) == FALSE

IsSourceLanguage(target_lang, language) == target_lang = language

\* the for loop of lines 192-207 moves to the next target language, or the
\* mapping is returned (lines 209-213)
auto_translate_advance(run) ==
  IF run.idx < Len(run.langs)
  THEN [run EXCEPT !.idx = @ + 1, !.pc = "loop", !.provider_result = NoneVal]
  ELSE [run EXCEPT !.pc = "done", !.outcome = "returned"]

\* lines 196-207: translations[target_lang] is the translation, or the
\* error entry of whatever translate raised
auto_translate_collect(run, raised, value) ==
  LET entry == IF raised THEN [error |-> value] ELSE value
  IN auto_translate_advance(
       [run EXCEPT !.translations = (run.target_lang :> entry) @@ @])

\* translate returns `value` or raises `value` to whoever called it
translate_exit(run, raised, value) ==
  IF run.op = "batch_translate"
  THEN batch_translate_collect(run, raised, value)
  ELSE IF run.op = "auto_translate_content"
  THEN auto_translate_collect(run, raised, value)
  ELSE [run EXCEPT !.pc = "done",
                   !.outcome = IF raised THEN value ELSE "returned",
                   !.results = IF raised THEN <<>> ELSE <<value>>]

\* translate, lines 47-67: validation, then create_task and its commit
translate_create(r, run) ==
  /\ IF ~ValidLanguages(run.source_lang, run.target_lang)
     THEN /\ runs' = [runs EXCEPT ![r] = translate_exit(run, TRUE, ValueErrorExc)]
          /\ UNCHANGED tasks
     ELSE IF run.session_failed
     THEN /\ runs' = [runs EXCEPT ![r] = translate_exit(run, TRUE, PendingRollbackExc)]
          /\ UNCHANGED tasks
     ELSE /\ Len(tasks) < MaxTasks
          /\ tasks' = create_task(tasks)
          /\ runs' = [runs EXCEPT ![r] = [run EXCEPT !.pc = "created",
                                                     !.task = Len(tasks) + 1]]
  /\ UNCHANGED <<jobs, contents, templates, admin_calls, automationVars, reply>>

translate(r, text, source_lang, target_lang) ==
  /\ runs[r].pc = "idle"
  /\ translate_create(r, [runs[r] EXCEPT !.op = "translate", !.texts = <<text>>,
                                         !.idx = 1, !.source_lang = source_lang,
                                         !.target_lang = target_lang])

batch_translate(r, texts, source_lang, target_lang) ==
  /\ runs[r].pc = "idle"
  /\ IF texts = <<>>
     THEN runs' = [runs EXCEPT ![r] = [@ EXCEPT !.op = "batch_translate", !.pc = "done",
                                                !.outcome = "returned",
                                                !.source_lang = source_lang,
                                                !.target_lang = target_lang]]
     ELSE runs' = [runs EXCEPT ![r] = [@ EXCEPT !.op = "batch_translate", !.pc = "loop",
                                                !.texts = texts, !.idx = 1,
                                                !.source_lang = source_lang,
                                                !.target_lang = target_lang]]
  /\ UNCHANGED <<tasks, jobs, contents, templates, admin_calls, automationVars, reply>>

batch_translate_next(r) ==
  /\ runs[r].op = "batch_translate"
  /\ runs[r].pc = "loop"
  /\ translate_create(r, runs[r])

\* auto_translate_content, lines 178-185: the call, up to the content query
auto_translate_content(r, content_id, target_languages) ==
  /\ runs[r].pc = "idle"
  /\ runs' = [runs EXCEPT ![r] = [@ EXCEPT !.op = "auto_translate_content", !.pc = "fetch",
                                           !.content = content_id,
                                           !.langs = target_languages]]
  /\ UNCHANGED <<tasks, jobs, contents, templates, admin_calls, automationVars, reply>>

\* lines 185-191: no such content raises ValueError; otherwise the loop starts
\* with the text and the language of the content that was read
auto_translate_fetch(r) ==
  LET run == runs[r] IN
  /\ run.op = "auto_translate_content"
  /\ run.pc = "fetch"
  /\ runs' = [runs EXCEPT ![r] =
       IF run.content \notin 1..Len(contents)
       THEN [run EXCEPT !.pc = "done", !.outcome = ValueErrorExc, !.content = 0]
       ELSE IF run.langs = <<>>
       THEN [run EXCEPT !.pc = "done", !.outcome = "returned",
                        !.source_lang = contents[run.content].language]
       ELSE [run EXCEPT !.pc = "loop", !.idx = 1,
                        !.source_lang = contents[run.content].language,
                        !.texts = [i \in 1..Len(run.langs) |-> contents[run.content].body]]]
  /\ UNCHANGED <<tasks, jobs, contents, templates, admin_calls, automationVars, reply>>

\* lines 192-203: the source language is skipped, any other target language
\* goes to translate
auto_translate_next(r) ==
  LET run == runs[r] IN
  /\ run.op = "auto_translate_content"
  /\ run.pc = "loop"
  /\ IF IsSourceLanguage(run.langs[run.idx], run.source_lang)
     THEN /\ runs' = [runs EXCEPT ![r] = auto_translate_advance(run)]
          /\ UNCHANGED <<tasks, jobs, contents, templates, admin_calls, automationVars, reply>>
     ELSE translate_create(r, [run EXCEPT !.target_lang = run.langs[run.idx]])

\* lines 69-80: the TranslationJob is added and the task goes to processing
translate_begin(r) ==
  LET run == runs[r] IN
  /\ run.op \in TranslateCallers
  /\ run.pc = "created"
  /\ jobs' = Append(jobs, [task_id |-> run.task, status |-> PROCESSING,
                           source_text |-> run.texts[run.idx],
                           translated_text |-> NoneVal, error_message |-> NoneVal])
  /\ tasks' = [tasks EXCEPT ![run.task] = ProcessingRow(@)]
  /\ runs' = [runs EXCEPT ![r] = [run EXCEPT !.pc = "calling", !.job = Len(jobs) + 1,
                                             !.called = TRUE]]
  /\ UNCHANGED <<contents, templates, admin_calls, automationVars, reply>>

\* a completion that sets the job's status and not its text
CompletedJob_StatusOnly(job, result) == [job EXCEPT !.status = COMPLETED]

\* lines 98-99: translation_job.status and translated_text
CompletedJob(job, result) ==
  [job EXCEPT !.status = COMPLETED, !.translated_text = result]

\* lines 118-119: translation_job.status and error_message
FailedJob(job, e) == [job EXCEPT !.status = FAILED, !.error_message = e]

\* lines 85-112: the provider answered and the commit of line 102 went through
translate_completed(r) ==
  LET run == runs[r]
      result == translate_text(run.texts[run.idx])
  IN
  /\ run.op \in TranslateCallers
  /\ run.pc = "calling"
  /\ tasks' = [tasks EXCEPT ![run.task] = CompletedRow(@, result)]
  /\ jobs' = [jobs EXCEPT ![run.job] = CompletedJob(@, result)]
  /\ runs' = [runs EXCEPT ![r] =
       translate_exit([run EXCEPT !.provider_result = "answered"], FALSE,
                      [task_id |-> run.task, translation_id |-> run.job,
                       translated_text |-> result, status |-> "completed"])]
  /\ UNCHANGED <<contents, templates, admin_calls, automationVars, reply>>

\* lines 93-102: the provider answered and the commit of line 102 raised; the
\* transaction is rolled back and the session stays in its failed state
translate_commit_fails(r) ==
  LET run == runs[r] IN
  /\ run.op \in TranslateCallers
  /\ run.pc = "calling"
  /\ runs' = [runs EXCEPT ![r] = [run EXCEPT !.pc = "except", !.session_failed = TRUE,
                                             !.provider_result = "answered"]]
  /\ UNCHANGED <<tasks, jobs, contents, templates, admin_calls, automationVars, reply>>

\* lines 114-121 on a session whose commit failed: there is no rollback(), so
\* the commit of line 120 raises and nothing is written
translate_except_no_rollback(r) ==
  LET run == runs[r] IN
  /\ run.op \in TranslateCallers
  /\ run.pc = "except"
  /\ runs' = [runs EXCEPT ![r] = translate_exit(run, TRUE, PendingRollbackExc)]
  /\ UNCHANGED <<tasks, jobs, contents, templates, admin_calls, automationVars, reply>>

\* lines 114-121: the provider call raised
translate_failed(r) ==
  LET run == runs[r] IN
  /\ run.op \in TranslateCallers
  /\ run.pc = "calling"
  /\ tasks' = [tasks EXCEPT ![run.task] = FailedRow(@, ProviderErrorExc)]
  /\ jobs' = [jobs EXCEPT ![run.job] = FailedJob(@, ProviderErrorExc)]
  /\ runs' = [runs EXCEPT ![r] = translate_exit([run EXCEPT !.provider_result = "raised"],
                                                 TRUE, ProviderErrorExc)]
  /\ UNCHANGED <<contents, templates, admin_calls, automationVars, reply>>

\* ---------------------------------------------------- content generation
\* abacus_client.generate_text: the provider's answer
generate_text == "generated text"

\* the replacement fields str.format() looks up in a prompt_template
FormatFields(prompt_template) ==
  { prompt_template[i].field :
      i \in { j \in 1..Len(prompt_template) : "field" \in DOMAIN prompt_template[j] } }

\* template.prompt_template.format(topic=, tone=, max_length=) raises KeyError
\* when the template names any other field
FormatRaises(prompt_template) ==
  ~(FormatFields(prompt_template) \subseteq {"topic", "tone", "max_length"})

\* generate_social_post, lines 51-67: create_task and its commit
generate_social_post(r, template_id) ==
  /\ runs[r].pc = "idle"
  /\ Len(tasks) < MaxTasks
  /\ tasks' = create_task(tasks)
  /\ runs' = [runs EXCEPT ![r] = [@ EXCEPT !.op = "generate_social_post", !.pc = "created",
                                           !.task = Len(tasks) + 1,
                                           !.template_id = template_id]]
  /\ UNCHANGED <<jobs, contents, templates, admin_calls, automationVars, reply>>

\* lines 69-89: the prompt is built, outside the try block, and the task
\* goes to processing
generate_build_prompt(r) ==
  LET run == runs[r] IN
  /\ run.op = "generate_social_post"
  /\ run.pc = "created"
  /\ IF /\ run.template_id # NoneVal
        /\ run.template_id \in DOMAIN templates
        /\ FormatRaises(templates[run.template_id].prompt_template)
     THEN /\ runs' = [runs EXCEPT ![r] = [run EXCEPT !.pc = "done", !.outcome = KeyErrorExc]]
          /\ UNCHANGED tasks
     ELSE /\ tasks' = [tasks EXCEPT ![run.task] = ProcessingRow(@)]
          /\ runs' = [runs EXCEPT ![r] = [run EXCEPT !.pc = "calling", !.called = TRUE]]
  /\ UNCHANGED <<jobs, contents, templates, admin_calls, automationVars, reply>>

\* lines 94-131: the provider answered and the commit of line 122 went through
\* lines 110-120; published and published_at take the defaults of the table
GeneratedContent(task_id, body) ==
  [task_id |-> task_id, body |-> body, language |-> "en",
   published |-> FALSE, published_at |-> NoneVal, external_id |-> NoneVal]

generate_completed(r) ==
  LET run == runs[r] IN
  /\ run.op = "generate_social_post"
  /\ run.pc = "calling"
  /\ tasks' = [tasks EXCEPT ![run.task] = CompletedRow(@, generate_text)]
  /\ contents' = Append(contents, GeneratedContent(run.task, generate_text))
  /\ runs' = [runs EXCEPT ![r] = [run EXCEPT !.pc = "done", !.outcome = "returned",
                                             !.provider_result = "answered"]]
  /\ UNCHANGED <<jobs, templates, admin_calls, automationVars, reply>>

\* lines 103-122: the provider answered and the commit of line 122 raised
generate_commit_fails(r) ==
  LET run == runs[r] IN
  /\ run.op = "generate_social_post"
  /\ run.pc = "calling"
  /\ runs' = [runs EXCEPT ![r] = [run EXCEPT !.pc = "except", !.session_failed = TRUE,
                                             !.provider_result = "answered"]]
  /\ UNCHANGED <<tasks, jobs, contents, templates, admin_calls, automationVars, reply>>

\* lines 133-138 on a session whose commit failed: the commit of line 137 raises
generate_except_no_rollback(r) ==
  LET run == runs[r] IN
  /\ run.op = "generate_social_post"
  /\ run.pc = "except"
  /\ runs' = [runs EXCEPT ![r] = [run EXCEPT !.pc = "done", !.outcome = PendingRollbackExc]]
  /\ UNCHANGED <<tasks, jobs, contents, templates, admin_calls, automationVars, reply>>

\* lines 133-138: the provider call raised
generate_failed(r) ==
  LET run == runs[r] IN
  /\ run.op = "generate_social_post"
  /\ run.pc = "calling"
  /\ tasks' = [tasks EXCEPT ![run.task] = FailedRow(@, ProviderErrorExc)]
  /\ runs' = [runs EXCEPT ![r] = [run EXCEPT !.pc = "done", !.outcome = ProviderErrorExc,
                                             !.provider_result = "raised"]]
  /\ UNCHANGED <<jobs, contents, templates, admin_calls, automationVars, reply>>

\* ---------------------------------------------------- content enhancement
\* abacus_client.enhance_text: the provider's answer
enhance_text == "enhanced text"

\* line 46: the enhancement type must be supported
ValidEnhancementType(enhancement_type) == enhancement_type \in ENHANCEMENT_TYPES

\* enhance_content, lines 46-63: validation, then create_task and its commit
enhance_content(r, enhancement_type) ==
  /\ runs[r].pc = "idle"
  /\ IF ~ValidEnhancementType(enhancement_type)
     THEN /\ runs' = [runs EXCEPT ![r] = [@ EXCEPT !.op = "enhance_content", !.pc = "done",
                                                   !.outcome = ValueErrorExc,
                                                   !.arg = enhancement_type]]
          /\ UNCHANGED tasks
     ELSE /\ Len(tasks) < MaxTasks
          /\ tasks' = create_task(tasks)
          /\ runs' = [runs EXCEPT ![r] = [@ EXCEPT !.op = "enhance_content", !.pc = "created",
                                                   !.task = Len(tasks) + 1,
                                                   !.arg = enhancement_type]]
  /\ UNCHANGED <<jobs, contents, templates, admin_calls, automationVars, reply>>

\* lines 65-66: the task goes to processing
enhance_begin(r) ==
  LET run == runs[r] IN
  /\ run.op = "enhance_content"
  /\ run.pc = "created"
  /\ tasks' = [tasks EXCEPT ![run.task] = ProcessingRow(@)]
  /\ runs' = [runs EXCEPT ![r] = [run EXCEPT !.pc = "calling", !.called = TRUE]]
  /\ UNCHANGED <<jobs, contents, templates, admin_calls, automationVars, reply>>

\* lines 71-94: the provider answered and the commit of line 84 went through
enhance_completed(r) ==
  LET run == runs[r] IN
  /\ run.op = "enhance_content"
  /\ run.pc = "calling"
  /\ tasks' = [tasks EXCEPT ![run.task] = CompletedRow(@, enhance_text)]
  /\ runs' = [runs EXCEPT ![r] = [run EXCEPT !.pc = "done", !.outcome = "returned",
                                             !.provider_result = "answered"]]
  /\ UNCHANGED <<jobs, contents, templates, admin_calls, automationVars, reply>>

\* lines 79-84: the provider answered and the commit of line 84 raised
enhance_commit_fails(r) ==
  LET run == runs[r] IN
  /\ run.op = "enhance_content"
  /\ run.pc = "calling"
  /\ runs' = [runs EXCEPT ![r] = [run EXCEPT !.pc = "except", !.session_failed = TRUE,
                                             !.provider_result = "answered"]]
  /\ UNCHANGED <<tasks, jobs, contents, templates, admin_calls, automationVars, reply>>

\* lines 96-101 on a session whose commit failed: the commit of line 100 raises
enhance_except_no_rollback(r) ==
  LET run == runs[r] IN
  /\ run.op = "enhance_content"
  /\ run.pc = "except"
  /\ runs' = [runs EXCEPT ![r] = [run EXCEPT !.pc = "done", !.outcome = PendingRollbackExc]]
  /\ UNCHANGED <<tasks, jobs, contents, templates, admin_calls, automationVars, reply>>

\* lines 96-101: the provider call raised
enhance_failed(r) ==
  LET run == runs[r] IN
  /\ run.op = "enhance_content"
  /\ run.pc = "calling"
  /\ tasks' = [tasks EXCEPT ![run.task] = FailedRow(@, ProviderErrorExc)]
  /\ runs' = [runs EXCEPT ![r] = [run EXCEPT !.pc = "done", !.outcome = ProviderErrorExc,
                                             !.provider_result = "raised"]]
  /\ UNCHANGED <<jobs, contents, templates, admin_calls, automationVars, reply>>

\* ---------------------------------------------------- image generation
\* abacus_client.generate_image_placeholder: the provider's answer
generate_image_placeholder == "image url"

\* line 46: the size must be supported
ValidSize(size) == size \in SUPPORTED_SIZES

\* generate_image, lines 46-63: validation, then create_task and its commit
generate_image(r, size) ==
  /\ runs[r].pc = "idle"
  /\ IF ~ValidSize(size)
     THEN /\ runs' = [runs EXCEPT ![r] = [@ EXCEPT !.op = "generate_image", !.pc = "done",
                                                   !.outcome = ValueErrorExc,
                                                   !.arg = size]]
          /\ UNCHANGED tasks
     ELSE /\ Len(tasks) < MaxTasks
          /\ tasks' = create_task(tasks)
          /\ runs' = [runs EXCEPT ![r] = [@ EXCEPT !.op = "generate_image", !.pc = "created",
                                                   !.task = Len(tasks) + 1,
                                                   !.arg = size]]
  /\ UNCHANGED <<jobs, contents, templates, admin_calls, automationVars, reply>>

\* lines 65-66: the task goes to processing
image_begin(r) ==
  LET run == runs[r] IN
  /\ run.op = "generate_image"
  /\ run.pc = "created"
  /\ tasks' = [tasks EXCEPT ![run.task] = ProcessingRow(@)]
  /\ runs' = [runs EXCEPT ![r] = [run EXCEPT !.pc = "calling", !.called = TRUE]]
  /\ UNCHANGED <<jobs, contents, templates, admin_calls, automationVars, reply>>

\* lines 71-90: the provider answered and the commit of line 82 went through
image_completed(r) ==
  LET run == runs[r] IN
  /\ run.op = "generate_image"
  /\ run.pc = "calling"
  /\ tasks' = [tasks EXCEPT ![run.task] = CompletedRow(@, generate_image_placeholder)]
  /\ runs' = [runs EXCEPT ![r] = [run EXCEPT !.pc = "done", !.outcome = "returned",
                                             !.provider_result = "answered"]]
  /\ UNCHANGED <<jobs, contents, templates, admin_calls, automationVars, reply>>

\* lines 78-82: the provider answered and the commit of line 82 raised
image_commit_fails(r) ==
  LET run == runs[r] IN
  /\ run.op = "generate_image"
  /\ run.pc = "calling"
  /\ runs' = [runs EXCEPT ![r] = [run EXCEPT !.pc = "except", !.session_failed = TRUE,
                                             !.provider_result = "answered"]]
  /\ UNCHANGED <<tasks, jobs, contents, templates, admin_calls, automationVars, reply>>

\* lines 92-97 on a session whose commit failed: the commit of line 96 raises
image_except_no_rollback(r) ==
  LET run == runs[r] IN
  /\ run.op = "generate_image"
  /\ run.pc = "except"
  /\ runs' = [runs EXCEPT ![r] = [run EXCEPT !.pc = "done", !.outcome = PendingRollbackExc]]
  /\ UNCHANGED <<tasks, jobs, contents, templates, admin_calls, automationVars, reply>>

NextGenerate ==
  \/ \E r \in RunIds, template_id \in TemplateInputs : generate_social_post(r, template_id)
  \/ \E r \in RunIds : generate_build_prompt(r)
  \/ \E r \in RunIds : generate_completed(r)
  \/ \E r \in RunIds : generate_commit_fails(r)
  \/ \E r \in RunIds : generate_except_no_rollback(r)
  \/ \E r \in RunIds : generate_failed(r)

NextEnhance ==
  \/ \E r \in RunIds, enhancement_type \in EnhancementInputs : enhance_content(r, enhancement_type)
  \/ \E r \in RunIds : enhance_begin(r)
  \/ \E r \in RunIds : enhance_completed(r)
  \/ \E r \in RunIds : enhance_commit_fails(r)
  \/ \E r \in RunIds : enhance_except_no_rollback(r)
  \/ \E r \in RunIds : enhance_failed(r)

NextImage ==
  \/ \E r \in RunIds, size \in SizeInputs : generate_image(r, size)
  \/ \E r \in RunIds : image_begin(r)
  \/ \E r \in RunIds : image_completed(r)
  \/ \E r \in RunIds : image_commit_fails(r)
  \/ \E r \in RunIds : image_except_no_rollback(r)

\* the request is over: its coroutine and its session are gone
request_ends(r) ==
  /\ runs[r].pc = "done"
  /\ runs' = [runs EXCEPT ![r] = IdleRun]
  /\ UNCHANGED <<tasks, jobs, contents, templates, admin_calls, automationVars, reply>>

BatchInputs == UNION { [1..n -> Texts] : n \in 0..MaxBatch }

NextTranslate ==
  \/ \E r \in RunIds, text \in Texts, s \in SourceLangs, t \in TargetLangs :
       translate(r, text, s, t)
  \/ \E r \in RunIds : translate_begin(r)
  \/ \E r \in RunIds : translate_completed(r)
  \/ \E r \in RunIds : translate_commit_fails(r)
  \/ \E r \in RunIds : translate_except_no_rollback(r)
  \/ \E r \in RunIds : translate_failed(r)

NextBatch ==
  \/ \E r \in RunIds, texts \in BatchInputs, s \in SourceLangs, t \in TargetLangs :
       batch_translate(r, texts, s, t)
  \/ \E r \in RunIds : batch_translate_next(r)

NextAdmin ==
  \/ \E t \in TaskIdInputs, reason \in Reasons : reject_task(t, reason)
  \/ \E t \in TaskIdInputs, u \in Users : approve_task(t, u)

\* the domain operations, one at a time or interleaved, with reject and approve
Next ==
  \/ NextGenerate
  \/ NextTranslate
  \/ NextEnhance
  \/ NextImage
  \/ NextAdmin
  \/ \E r \in RunIds : request_ends(r)

Spec == Init /\ [][Next]_vars

\* the same with update_task
NextUpdate ==
  \/ Next
  \/ \E t \in TaskIdInputs, d \in UpdatePayloads : update_task(t, d)

SpecUpdate == Init /\ [][NextUpdate]_vars

\* batch_translate, its translate calls, and reject_task
NextBatchTranslate ==
  \/ NextBatch
  \/ \E r \in RunIds : translate_begin(r)
  \/ \E r \in RunIds : translate_completed(r)
  \/ \E r \in RunIds : translate_commit_fails(r)
  \/ \E r \in RunIds : translate_except_no_rollback(r)
  \/ \E r \in RunIds : translate_failed(r)
  \/ \E t \in TaskIdInputs, reason \in Reasons : reject_task(t, reason)
  \/ \E r \in RunIds : request_ends(r)

SpecBatch == Init /\ [][NextBatchTranslate]_vars

\* target_languages of an auto_translate_content call
LanguageLists == UNION { [1..n -> {"en", "es", "de"}] : n \in 0..MaxLangs }
ContentIdInputs == 1..MaxTasks

\* auto_translate_content on the contents that generate_social_post made
NextAutoTranslate ==
  \/ \E r \in RunIds : generate_social_post(r, NoneVal)
  \/ \E r \in RunIds : generate_build_prompt(r)
  \/ \E r \in RunIds : generate_completed(r)
  \/ \E r \in RunIds : generate_failed(r)
  \/ \E r \in RunIds, c \in ContentIdInputs, ls \in LanguageLists :
       auto_translate_content(r, c, ls)
  \/ \E r \in RunIds : auto_translate_fetch(r)
  \/ \E r \in RunIds : auto_translate_next(r)
  \/ \E r \in RunIds : translate_begin(r)
  \/ \E r \in RunIds : translate_completed(r)
  \/ \E r \in RunIds : translate_commit_fails(r)
  \/ \E r \in RunIds : translate_except_no_rollback(r)
  \/ \E r \in RunIds : translate_failed(r)
  \/ \E r \in RunIds : request_ends(r)

SpecAutoTranslate == Init /\ [][NextAutoTranslate]_vars

\* ---------------------------------------------------- task service calls
\* The task service called on its own, with what each call returns: the
\* task, or None when get_task finds no task of that id.
create_task_call ==
  /\ Len(tasks) < MaxTasks
  /\ tasks' = create_task(tasks)
  /\ reply' = [op |-> "create_task", task_id |-> Len(tasks) + 1, outcome |-> "returned"]
  /\ UNCHANGED <<jobs, contents, templates, runs, admin_calls, automationVars>>

\* approve_task, lines 147-158
approve_task_call(t, approved_by) ==
  /\ admin_calls < MaxAdminCalls
  /\ admin_calls' = admin_calls + 1
  /\ tasks' = IF TaskExists(t) THEN [tasks EXCEPT ![t] = ApproveRow(@, approved_by)]
              ELSE tasks
  /\ reply' = [op |-> "approve_task", task_id |-> t, approved_by |-> approved_by,
               outcome |-> "returned", found |-> TaskExists(t)]
  /\ UNCHANGED <<jobs, contents, templates, runs, automationVars>>

\* reject_task, lines 178-188
reject_task_call(t, reason) ==
  /\ admin_calls < MaxAdminCalls
  /\ admin_calls' = admin_calls + 1
  /\ tasks' = IF TaskExists(t) THEN [tasks EXCEPT ![t] = RejectRow(@, reason)]
              ELSE tasks
  /\ reply' = [op |-> "reject_task", task_id |-> t, reason |-> reason,
               outcome |-> "returned", found |-> TaskExists(t)]
  /\ UNCHANGED <<jobs, contents, templates, runs, automationVars>>

\* update_task, lines 119-129
update_task_call(t, task_data) ==
  /\ admin_calls < MaxAdminCalls
  /\ admin_calls' = admin_calls + 1
  /\ tasks' = IF TaskExists(t) THEN [tasks EXCEPT ![t] = ApplyUpdate(@, task_data)]
              ELSE tasks
  /\ reply' = [op |-> "update_task", task_id |-> t, outcome |-> "returned",
               found |-> TaskExists(t)]
  /\ UNCHANGED <<jobs, contents, templates, runs, automationVars>>

NextTaskService ==
  \/ create_task_call
  \/ \E t \in TaskIdInputs, u \in Users : approve_task_call(t, u)
  \/ \E t \in TaskIdInputs, reason \in Reasons : reject_task_call(t, reason)
  \/ \E t \in TaskIdInputs, d \in UpdatePayloads : update_task_call(t, d)

SpecTaskService == Init /\ [][NextTaskService]_vars

\* ---------------------------------------------------- template service
\* the id the next created template gets
NewTemplateId == "t3"

\* prompt templates a caller sends: one field, a field used twice, no field
PromptInputs ==
  { <<[lit |-> "About "], [field |-> "topic"]>>,
    <<[lit |-> "Dear "], [field |-> "audience"], [lit |-> ", "], [field |-> "topic"],
      [lit |-> " for "], [field |-> "audience"]>>,
    <<[lit |-> "Plain text"]>> }

\* create_template: the variables the caller sends are not used (line 59)
create_template(prompt_template, variables) ==
  /\ NewTemplateId \notin DOMAIN templates
  /\ templates' = (NewTemplateId :> NewTemplate(prompt_template)) @@ templates
  /\ reply' = [op |-> "create_template", template_id |-> NewTemplateId,
               outcome |-> "returned"]
  /\ UNCHANGED <<tasks, jobs, contents, runs, admin_calls, automationVars>>

\* ContentTemplateUpdate payloads, model_dump(exclude_unset=True)
UpdateTemplateInputs ==
  { [prompt_template |-> p] : p \in PromptInputs }
    \cup { [variables |-> {"headline"}], [is_active |-> FALSE],
           [prompt_template |-> <<[lit |-> "About "], [field |-> "topic"]>>,
            variables |-> {"headline"}] }

\* lines 126-133: with a prompt_template in the payload, the payload's
\* variables are the extracted ones
UpdateData(template_data) ==
  IF "prompt_template" \in DOMAIN template_data
  THEN [f \in DOMAIN template_data \cup {"variables"} |->
          IF f = "variables" THEN extract_variables(template_data.prompt_template)
          ELSE template_data[f]]
  ELSE template_data

\* update_template: every field of the payload is set on the template
update_template(template_id, template_data) ==
  /\ IF template_id \in DOMAIN templates
     THEN /\ templates' = [templates EXCEPT ![template_id] =
                             ApplyUpdate(@, UpdateData(template_data))]
          /\ reply' = [op |-> "update_template", template_id |-> template_id,
                       outcome |-> "returned", found |-> TRUE]
     ELSE /\ UNCHANGED templates
          /\ reply' = [op |-> "update_template", template_id |-> template_id,
                       outcome |-> "returned", found |-> FALSE]
  /\ UNCHANGED <<tasks, jobs, contents, runs, admin_calls, automationVars>>

\* the values a caller supplies to test_template
VariableValues == [topic |-> "hope", tone |-> "warm", audience |-> "youth"]
VariablesInputs == { [k \in ks |-> VariableValues[k]] : ks \in SUBSET DOMAIN VariableValues }

\* a rendering that leaves the fields without a value as they are
RECURSIVE Format_Lenient(_, _)
Format_Lenient(template_text, kwargs) ==
  IF template_text = <<>> THEN [raised |-> FALSE, value |-> ""]
  ELSE LET piece == Head(template_text)
           rest == Format_Lenient(Tail(template_text), kwargs)
       IN IF "lit" \in DOMAIN piece
          THEN [raised |-> FALSE, value |-> piece.lit \o rest.value]
          ELSE IF piece.field \in DOMAIN kwargs
          THEN [raised |-> FALSE, value |-> kwargs[piece.field] \o rest.value]
          ELSE [raised |-> FALSE, value |-> "{" \o piece.field \o "}" \o rest.value]

\* str.format(**kwargs): the pieces are rendered left to right, and the
\* first field without a value raises KeyError(name)
RECURSIVE Format(_, _)
Format(template_text, kwargs) ==
  IF template_text = <<>> THEN [raised |-> FALSE, value |-> ""]
  ELSE LET piece == Head(template_text)
       IN IF "field" \in DOMAIN piece /\ piece.field \notin DOMAIN kwargs
          THEN [raised |-> TRUE, value |-> piece.field]
          ELSE LET rest == Format(Tail(template_text), kwargs)
               IN IF rest.raised THEN rest
                  ELSE [raised |-> FALSE,
                        value |-> (IF "lit" \in DOMAIN piece THEN piece.lit
                                   ELSE kwargs[piece.field]) \o rest.value]

\* test_template, lines 187-195: the rendered text, or a ValueError for an
\* unknown template and for the KeyError of format
test_template(template_id, variables) ==
  /\ reply' =
       IF template_id \notin DOMAIN templates
       THEN [op |-> "test_template", template_id |-> template_id, variables |-> variables,
             outcome |-> ValueErrorExc, message |-> "Template not found"]
       ELSE LET rendered == Format(templates[template_id].prompt_template, variables)
            IN IF rendered.raised
               THEN [op |-> "test_template", template_id |-> template_id,
                     variables |-> variables, outcome |-> ValueErrorExc,
                     message |-> "Missing variable: '" \o rendered.value \o "'"]
               ELSE [op |-> "test_template", template_id |-> template_id,
                     variables |-> variables, outcome |-> "returned",
                     value |-> rendered.value]
  /\ UNCHANGED <<tasks, jobs, contents, templates, runs, admin_calls, automationVars>>

\* increment_usage, lines 166-169, and ContentTemplate.increment_usage
increment_usage(template_id) ==
  /\ IF template_id \in DOMAIN templates
     THEN /\ templates[template_id].usage_count < MaxUsage
          /\ templates' = [templates EXCEPT ![template_id].usage_count = @ + 1]
     ELSE UNCHANGED templates
  /\ reply' = [op |-> "increment_usage", template_id |-> template_id,
               outcome |-> "returned"]
  /\ UNCHANGED <<tasks, jobs, contents, runs, admin_calls, automationVars>>

TemplateIdInputs == TemplateIds \cup {NewTemplateId}

\* the template service
NextTemplates ==
  \/ \E p \in PromptInputs, vs \in {{}, {"headline"}} : create_template(p, vs)
  \/ \E t \in TemplateIdInputs, d \in UpdateTemplateInputs : update_template(t, d)
  \/ \E t \in TemplateIdInputs, vs \in VariablesInputs : test_template(t, vs)

SpecTemplates == Init /\ [][NextTemplates]_vars

\* the uses of templates: generate_social_post with a template, and
\* increment_usage
NextUsage ==
  \/ \E r \in RunIds, t \in TemplateInputs : generate_social_post(r, t)
  \/ \E r \in RunIds : generate_build_prompt(r)
  \/ \E r \in RunIds : generate_completed(r)
  \/ \E r \in RunIds : generate_failed(r)
  \/ \E r \in RunIds : request_ends(r)
  \/ \E t \in TemplateIdInputs : increment_usage(t)
  \/ \E t \in TemplateIdInputs, d \in UpdateTemplateInputs : update_template(t, d)

SpecUsage == Init /\ [][NextUsage]_vars

\* ---------------------------------------------------- automation service
\* a dict with no keys
EmptyDict == [k \in {} |-> <<>>]

\* workflow configurations and trigger data a caller sends
ConfigInputs == {[target_languages |-> <<"es", "de">>]}
TriggerDataInputs == {EmptyDict, [content_id |-> <<"c1">>]}
WorkflowTypes == {"auto_translate", "scheduled_post", "digest"}
ScheduleInputs == {NoneVal}

\* AutomationWorkflow.__init__ as create_workflow calls it: is_active=True
AutomationWorkflow(name, workflow_type, config, schedule) ==
  [name |-> name, workflow_type |-> workflow_type, config |-> config,
   schedule |-> schedule, is_active |-> TRUE]

\* the endpoint's answer to what trigger_workflow raised: ValueError is a
\* 400, anything else a 500
HttpStatus(exc) == IF exc = ValueErrorExc THEN 400 ELSE 500

\* create_workflow: a fresh uuid4() id, the workflow stored under it
create_workflow(name, workflow_type, config, schedule) ==
  /\ uuids < MaxWorkflows
  /\ uuids' = uuids + 1
  /\ workflows' = (uuids + 1 :> AutomationWorkflow(name, workflow_type, config, schedule))
                     @@ workflows
  /\ reply' = [op |-> "create_workflow", workflow_id |-> uuids + 1, outcome |-> "returned"]
  /\ UNCHANGED workflow_history
  /\ UNCHANGED <<tasks, jobs, contents, templates, runs, admin_calls>>

\* the arguments of update_workflow that are not None
UpdateWorkflowInputs ==
  { [is_active |-> FALSE], [is_active |-> TRUE], [name |-> "renamed"], [name |-> ""],
    [config |-> EmptyDict], [schedule |-> ""] }

\* lines 148-155: name and config are assigned when truthy, schedule and
\* is_active when not None
UpdatedWorkflow(workflow, args) ==
  [workflow EXCEPT
     !.name = IF "name" \in DOMAIN args /\ args.name # "" THEN args.name ELSE @,
     !.config = IF "config" \in DOMAIN args /\ DOMAIN args.config # {}
                THEN args.config ELSE @,
     !.schedule = IF "schedule" \in DOMAIN args THEN args.schedule ELSE @,
     !.is_active = IF "is_active" \in DOMAIN args THEN args.is_active ELSE @]

update_workflow(workflow_id, args) ==
  /\ IF workflow_id \in DOMAIN workflows
     THEN /\ workflows' = [workflows EXCEPT ![workflow_id] = UpdatedWorkflow(@, args)]
          /\ reply' = [op |-> "update_workflow", workflow_id |-> workflow_id,
                       args |-> args, outcome |-> "returned", found |-> TRUE]
     ELSE /\ UNCHANGED workflows
          /\ reply' = [op |-> "update_workflow", workflow_id |-> workflow_id,
                       args |-> args, outcome |-> "returned", found |-> FALSE]
  /\ UNCHANGED <<workflow_history, uuids>>
  /\ UNCHANGED <<tasks, jobs, contents, templates, runs, admin_calls>>

\* a delete_workflow that also drops the executions of the workflow
delete_workflow_history_purged(history, workflow_id) ==
  SelectSeq(history, LAMBDA record : record.workflow_id # workflow_id)

\* delete_workflow, lines 162-166: the history list is not touched
delete_workflow_history(history, workflow_id) == history

delete_workflow(workflow_id) ==
  /\ IF workflow_id \in DOMAIN workflows
     THEN /\ workflows' = [w \in DOMAIN workflows \ {workflow_id} |-> workflows[w]]
          /\ workflow_history' = delete_workflow_history(workflow_history, workflow_id)
          /\ reply' = [op |-> "delete_workflow", workflow_id |-> workflow_id,
                       outcome |-> "returned", value |-> TRUE]
     ELSE /\ UNCHANGED <<workflows, workflow_history>>
          /\ reply' = [op |-> "delete_workflow", workflow_id |-> workflow_id,
                       outcome |-> "returned", value |-> FALSE]
  /\ UNCHANGED uuids
  /\ UNCHANGED <<tasks, jobs, contents, templates, runs, admin_calls>>

\* the checks without the is_active one
TriggerPrecondition_NoActiveCheck(ws, workflow_id) ==
  IF workflow_id \notin DOMAIN ws THEN "not found" ELSE "ok"

\* trigger_workflow, lines 186-191
TriggerPrecondition(ws, workflow_id) ==
  IF workflow_id \notin DOMAIN ws THEN "not found"
  ELSE IF ~ws[workflow_id].is_active THEN "not active"
  ELSE "ok"

\* line 194, str(UUID()): uuid.UUID called with none of hex, bytes,
\* bytes_le, fields, int raises TypeError
execution_id == [raised |-> TRUE, value |-> TypeErrorExc]

\* what the caller of the trigger endpoint sees of an exception, and the
\* line that raised it
TriggerFailure(workflow_id, exc, message, line) ==
  [op |-> "trigger_workflow", workflow_id |-> workflow_id, outcome |-> exc,
   message |-> message, http |-> HttpStatus(exc), line |-> line]

\* trigger_workflow: a ValueError for an unknown or inactive workflow; for any
\* other the TypeError of line 194, which is raised outside the try block of
\* lines 197-233, so that no handler runs and no execution is recorded
TriggerOutcome(ws, workflow_id) ==
  LET checked == TriggerPrecondition(ws, workflow_id)
  IN IF checked = "not found"
     THEN TriggerFailure(workflow_id, ValueErrorExc, "not found", 188)
     ELSE IF checked = "not active"
     THEN TriggerFailure(workflow_id, ValueErrorExc, "is not active", 191)
     ELSE TriggerFailure(workflow_id, execution_id.value,
                         "one of the hex, bytes, bytes_le, fields, or int arguments must be given",
                         194)

trigger_workflow(workflow_id, trigger_data) ==
  /\ execution_id.raised
  /\ reply' = TriggerOutcome(workflows, workflow_id)
  /\ UNCHANGED <<workflows, workflow_history, uuids>>
  /\ UNCHANGED <<tasks, jobs, contents, templates, runs, admin_calls>>

\* seq[start:] as Python slices a list
SliceFrom(seq, start) ==
  LET n == Len(seq)
      lo == IF start < 0 THEN (IF n + start < 0 THEN 0 ELSE n + start)
            ELSE (IF start > n THEN n ELSE start)
  IN SubSeq(seq, lo + 1, n)

\* the records of one workflow, in the order of the list
RecordsOf(history, workflow_id) ==
  SelectSeq(history, LAMBDA record : record.workflow_id = workflow_id)

\* get_workflow_history, lines 286-290: history[-limit:]
WorkflowHistory(history, workflow_id, limit) ==
  SliceFrom(RecordsOf(history, workflow_id), 0 - limit)

LimitInputs == 0..MaxLimit

get_workflow_history(workflow_id, limit) ==
  /\ reply' = [op |-> "get_workflow_history", workflow_id |-> workflow_id,
               limit |-> limit, outcome |-> "returned",
               value |-> WorkflowHistory(workflow_history, workflow_id, limit)]
  /\ UNCHANGED automationVars
  /\ UNCHANGED <<tasks, jobs, contents, templates, runs, admin_calls>>

NextAutomation ==
  \/ \E workflow_type \in WorkflowTypes, config \in ConfigInputs, schedule \in ScheduleInputs :
       create_workflow("daily", workflow_type, config, schedule)
  \/ \E w \in WorkflowIdInputs, args \in UpdateWorkflowInputs : update_workflow(w, args)
  \/ \E w \in WorkflowIdInputs : delete_workflow(w)
  \/ \E w \in WorkflowIdInputs, d \in TriggerDataInputs : trigger_workflow(w, d)
  \/ \E w \in WorkflowIdInputs, limit \in LimitInputs : get_workflow_history(w, limit)

SpecAutomation == Init /\ [][NextAutomation]_vars

\* an execution record as lines 210-217 and 224-231 build it
ExecutionRecord(id, workflow_id, status) ==
  IF status = "completed"
  THEN [execution_id |-> id, workflow_id |-> workflow_id, status |-> "completed",
        result |-> "result"]
  ELSE [execution_id |-> id, workflow_id |-> workflow_id, status |-> "failed",
        error |-> "error"]

\* the execution histories of up to MaxHistory records
Histories ==
  UNION { { [i \in 1..n |-> ExecutionRecord(i, ws[i], ss[i])] :
              ws \in [1..n -> WorkflowIdInputs], ss \in [1..n -> {"completed", "failed"}] } :
          n \in 0..MaxHistory }

\* the orchestrator's operations on any execution history
InitHistory ==
  /\ tasks = <<>>
  /\ jobs = <<>>
  /\ contents = <<>>
  /\ templates = InitTemplates
  /\ runs = [r \in RunIds |-> IdleRun]
  /\ admin_calls = 0
  /\ workflows = <<>>
  /\ workflow_history \in Histories
  /\ uuids = 0
  /\ reply = NoReply

SpecHistory == InitHistory /\ [][NextAutomation]_vars

\* ================================================================ claims
Terminal == {COMPLETED, FAILED, CANCELLED}
Existing == 1..Len(tasks)
ContentsOf(cs, t) == { i \in 1..Len(cs) : cs[i].task_id = t }
JobsOf(js, t) == { i \in 1..Len(js) : js[i].task_id = t }

\* C1: once a Task's status is completed, failed or cancelled, no step
\* changes it.
C1_TerminalIsFinal ==
  [][\A t \in Existing :
       tasks[t].status \in Terminal => tasks'[t].status = tasks[t].status]_vars

C5_GuardedTransitions ==
  [][\A t \in Existing :
       /\ (tasks'[t].status = PROCESSING /\ tasks[t].status # PROCESSING)
            => tasks[t].status = PENDING
       /\ (tasks'[t].status \in {COMPLETED, FAILED} /\ tasks'[t].status # tasks[t].status)
            => tasks[t].status = PROCESSING]_vars

ProviderRaises(r) ==
  /\ runs[r].pc = "calling"
  /\ runs[r].provider_result = NoneVal
  /\ runs'[r].provider_result = "raised"

UnsupportedInput(run) ==
  \/ /\ run.op = "translate"
     /\ (run.source_lang \notin {"en", "es", "fr", "pt"}
           \/ run.target_lang \notin {"en", "es", "fr", "pt"})
  \/ /\ run.op = "enhance_content"
     /\ run.arg \notin {"grammar", "tone", "seo", "summarize", "improve"}
  \/ /\ run.op = "generate_image"
     /\ run.arg \notin {"256x256", "512x512", "1024x1024", "1024x1792", "1792x1024"}

\* C8: a translate, enhance_content or generate_image call with an
\* unsupported language, enhancement type or size ends at once with
\* ValueError: no Task, TranslationJob or GeneratedContent is created and the
\* provider is not called.
C8_ValidationPrecedesTaskCreation ==
  [][\A r \in RunIds :
       (runs[r].pc = "idle" /\ runs'[r].pc # "idle" /\ UnsupportedInput(runs'[r]))
       => /\ tasks' = tasks /\ jobs' = jobs /\ contents' = contents
          /\ runs'[r].pc = "done" /\ runs'[r].outcome = ValueErrorExc
          /\ runs'[r].task = 0 /\ ~runs'[r].called]_vars

\* a translate call with an unsupported target language has been refused
C8_Witness ==
  \E r \in RunIds :
    /\ runs[r].op = "translate"
    /\ runs[r].target_lang = "de"
    /\ runs[r].source_lang = "en"
    /\ runs[r].outcome = ValueErrorExc

EntryOf(entry, text) ==
  IF "error" \in DOMAIN entry
  THEN entry.text = text
  ELSE entry.status = "completed" /\ entry.translated_text = "[translated] " \o text

IsPrefix(a, b) == Len(a) <= Len(b) /\ SubSeq(b, 1, Len(a)) = a

\* the step is a trigger_workflow call on a workflow that is known and active
TriggersActive(w) ==
  /\ reply'.op = "trigger_workflow"
  /\ reply'.workflow_id = w
  /\ w \in DOMAIN workflows
  /\ workflows[w].is_active

\* C12: every trigger_workflow call on a known, active workflow appends
\* exactly one execution record: completed with a result when the call
\* returns, failed with an error when the call raises.
C12_TriggerAppendsOneRecord ==
  [][\A w \in WorkflowIdInputs :
       TriggersActive(w)
       => /\ Len(workflow_history') = Len(workflow_history) + 1
          /\ IsPrefix(workflow_history, workflow_history')
          /\ LET record == workflow_history'[Len(workflow_history')]
             IN /\ record.workflow_id = w
                /\ \/ /\ record.status = "completed"
                      /\ "result" \in DOMAIN record
                      /\ reply'.outcome = "returned"
                   \/ /\ record.status = "failed"
                      /\ "error" \in DOMAIN record
                      /\ reply'.outcome # "returned"]_vars

\* C13: a trigger_workflow call on an unknown or inactive workflow fails
\* with the ValueError of line 188 or 191, leaves the execution history as it
\* was (get_workflow_history answers the same for every limit) and starts no
\* domain operation and no Task.
C13_FailedPreconditionRecordsNothing ==
  [][\A w \in WorkflowIdInputs :
       (/\ reply'.op = "trigger_workflow"
        /\ reply'.workflow_id = w
        /\ (w \notin DOMAIN workflows \/ ~workflows[w].is_active))
       => /\ reply'.outcome = ValueErrorExc
          /\ reply'.line = (IF w \notin DOMAIN workflows THEN 188 ELSE 191)
          /\ workflow_history' = workflow_history
          /\ \A limit \in LimitInputs :
               WorkflowHistory(workflow_history', w, limit)
                 = WorkflowHistory(workflow_history, w, limit)
          /\ tasks' = tasks /\ jobs' = jobs /\ contents' = contents /\ runs' = runs]_vars

\* an inactive workflow that has executions in the history was triggered and
\* the call failed
C13_Witness ==
  /\ reply.op = "trigger_workflow"
  /\ reply.outcome = ValueErrorExc
  /\ reply.line = 191
  /\ RecordsOf(workflow_history, reply.workflow_id) # <<>>

C15_HistoryAppendOnly ==
  [][IsPrefix(workflow_history, workflow_history')]_vars

\* a workflow with executions in the history has been deleted
C15_Witness ==
  /\ reply.op = "delete_workflow"
  /\ reply.value = TRUE
  /\ RecordsOf(workflow_history, reply.workflow_id) # <<>>

\* C16: each trigger_workflow call on an active workflow adds its own
\* record to the history of that workflow, so N calls add N records.
C16_EachTriggerAddsItsRecord ==
  [][\A w \in WorkflowIdInputs :
       TriggersActive(w)
       => Len(RecordsOf(workflow_history', w)) = Len(RecordsOf(workflow_history, w)) + 1]_vars

\* the failures of trigger_workflow, one per line that raises
TriggerFailures ==
  LET workflow == AutomationWorkflow("daily", "auto_translate", EmptyDict, NoneVal)
  IN { TriggerOutcome(EmptyDict, 1),
       TriggerOutcome((1 :> [workflow EXCEPT !.is_active = FALSE]), 1),
       TriggerOutcome((1 :> workflow), 1) }

\* C17: the failures of trigger_workflow are of pairwise distinct kinds: one
\* raised at another line than the failure the caller got has another
\* exception class or another HTTP status.
C17_FailureKindsDistinct ==
  (reply.op = "trigger_workflow" /\ reply.outcome # "returned")
  => \A f \in TriggerFailures :
       f.line # reply.line => <<f.outcome, f.http>> # <<reply.outcome, reply.http>>

\* ----------------------------------------------------------- templates
\* C18: the variables of every template are the extracted variables of its
\* prompt_template, after any create_template and update_template calls.
C18_VariablesAreDerived ==
  \A t \in DOMAIN templates :
    templates[t].variables = extract_variables(templates[t].prompt_template)

\* the fields of a template text in their order, and the text with every
\* field replaced by its value
FieldsInOrder(template_text) ==
  SelectSeq(template_text, LAMBDA piece : "field" \in DOMAIN piece)

RECURSIVE Substituted(_, _)
Substituted(template_text, values) ==
  IF template_text = <<>> THEN ""
  ELSE (IF "lit" \in DOMAIN Head(template_text) THEN Head(template_text).lit
        ELSE values[Head(template_text).field])
       \o Substituted(Tail(template_text), values)

C22_ApprovedHasApprover ==
  \A t \in 1..Len(tasks) :
    tasks[t].approved = TRUE
    => tasks[t].approved_by # NoneVal /\ tasks[t].approved_at # NoneVal

ContentExists(c) == c \in 1..Len(contents)

\* datetime.utcnow() of publish_content
utcnow == "utcnow"

ExternalIdInputs == {NoneVal, "ext-1"}

\* model_dump(exclude_unset=True) of a GeneratedContentUpdate
ContentUpdateInputs ==
  { [published |-> TRUE], [published |-> FALSE], [body |-> "edited"],
    [published |-> TRUE, external_id |-> "ext-1"] }

\* publish_content, lines 190-193
PublishedRow(content, external_id) ==
  [content EXCEPT !.published = TRUE,
                  !.published_at = utcnow,
                  !.external_id = IF external_id # NoneVal THEN external_id ELSE @]

\* update_content, lines 129-131: setattr of every field that was sent
ApplyContentUpdate(content, update_data) ==
  [f \in DOMAIN content |->
     IF f \in DOMAIN update_data THEN update_data[f] ELSE content[f]]

\* publish_content, lines 178-199
publish_content(c, external_id) ==
  /\ admin_calls < MaxAdminCalls
  /\ admin_calls' = admin_calls + 1
  /\ contents' = IF ContentExists(c)
                 THEN [contents EXCEPT ![c] = PublishedRow(@, external_id)]
                 ELSE contents
  /\ reply' = [op |-> "publish_content", content_id |-> c,
               outcome |-> IF ContentExists(c) THEN "returned" ELSE "raised",
               found |-> ContentExists(c)]
  /\ UNCHANGED <<tasks, jobs, templates, runs, automationVars>>

\* update_content, lines 118-135
update_content(c, update_data) ==
  /\ admin_calls < MaxAdminCalls
  /\ admin_calls' = admin_calls + 1
  /\ contents' = IF ContentExists(c)
                 THEN [contents EXCEPT ![c] = ApplyContentUpdate(@, update_data)]
                 ELSE contents
  /\ reply' = [op |-> "update_content", content_id |-> c,
               outcome |-> IF ContentExists(c) THEN "returned" ELSE "raised",
               found |-> ContentExists(c)]
  /\ UNCHANGED <<tasks, jobs, templates, runs, automationVars>>

NextContent ==
  \/ NextGenerate
  \/ \E r \in RunIds : request_ends(r)
  \/ \E c \in ContentIdInputs, e \in ExternalIdInputs : publish_content(c, e)
  \/ \E c \in ContentIdInputs, u \in ContentUpdateInputs : update_content(c, u)

SpecContent == Init /\ [][NextContent]_vars

MaxPrompts == 3

Prompts == {"p1", "p2"}
PromptLists == UNION { [1..n -> Prompts] : n \in 0..MaxPrompts }

\* an awaitable of the gather that has not finished
Pending == [done |-> FALSE, raised |-> FALSE, value |-> NoneVal]

\* generate_text(prompt): the dict it returns, or the exception it re-raises
GenerateTextReturns(prompt) ==
  [done |-> TRUE, raised |-> FALSE, value |-> "text for " \o prompt]
GenerateTextRaises(prompt) ==
  [done |-> TRUE, raised |-> TRUE, value |-> ProviderErrorExc]

\* a gather that propagates the first exception of its awaitables
gather_failfast(results) ==
  IF \E i \in 1..Len(results) : results[i].raised
  THEN LET i == CHOOSE k \in 1..Len(results) :
                  /\ results[k].raised
                  /\ \A j \in 1..(k - 1) : ~results[j].raised
       IN [raised |-> TRUE, value |-> results[i].value]
  ELSE [raised |-> FALSE, value |-> results]

\* asyncio.gather(*tasks, return_exceptions=True), line 219: the results and
\* the exceptions of the awaitables, in the order of the awaitables
gather(results) == [raised |-> FALSE, value |-> results]

\* lines 215-219: one generate_text per prompt, all started by the gather
batch_generate(r, prompts) ==
  /\ runs[r].pc = "idle"
  /\ runs' = [runs EXCEPT ![r] = [@ EXCEPT !.op = "batch_generate", !.pc = "gather",
                                             !.texts = prompts,
                                             !.results = [i \in 1..Len(prompts) |-> Pending]]]
  /\ UNCHANGED <<tasks, jobs, contents, templates, admin_calls, automationVars, reply>>

\* generate_text, lines 35-84: the call of prompt i returns
batch_generate_text_returns(r, i) ==
  LET run == runs[r] IN
  /\ run.op = "batch_generate" /\ run.pc = "gather"
  /\ i \in 1..Len(run.results) /\ ~run.results[i].done
  /\ runs' = [runs EXCEPT ![r].results[i] = GenerateTextReturns(run.texts[i])]
  /\ UNCHANGED <<tasks, jobs, contents, templates, admin_calls, automationVars, reply>>

\* generate_text, lines 80-84: the call of prompt i raises
batch_generate_text_raises(r, i) ==
  LET run == runs[r] IN
  /\ run.op = "batch_generate" /\ run.pc = "gather"
  /\ i \in 1..Len(run.results) /\ ~run.results[i].done
  /\ runs' = [runs EXCEPT ![r].results[i] = GenerateTextRaises(run.texts[i])]
  /\ UNCHANGED <<tasks, jobs, contents, templates, admin_calls, automationVars, reply>>

\* line 219: every awaitable is done and the gather hands over its list
batch_generate_returns(r) ==
  LET run == runs[r]
      gathered == gather(run.results) IN
  /\ run.op = "batch_generate" /\ run.pc = "gather"
  /\ \A i \in 1..Len(run.results) : run.results[i].done
  /\ runs' = [runs EXCEPT ![r] = [run EXCEPT !.pc = "done",
                                             !.outcome = IF gathered.raised THEN "raised"
                                                         ELSE "returned"]]
  /\ reply' = [op |-> "batch_generate", prompts |-> run.texts,
               outcome |-> IF gathered.raised THEN "raised" ELSE "returned",
               value |-> gathered.value]
  /\ UNCHANGED <<tasks, jobs, contents, templates, admin_calls, automationVars>>

NextGateway ==
  \/ \E r \in RunIds, prompts \in PromptLists : batch_generate(r, prompts)
  \/ \E r \in RunIds, i \in 1..MaxPrompts : batch_generate_text_returns(r, i)
  \/ \E r \in RunIds, i \in 1..MaxPrompts : batch_generate_text_raises(r, i)
  \/ \E r \in RunIds : batch_generate_returns(r)
  \/ \E r \in RunIds : request_ends(r)

SpecGateway == Init /\ [][NextGateway]_vars

\* C27: batch_generate attempts every prompt and returns a list as long as
\* the list of prompts whose entry i is the result or the error of prompt i;
\* a failing prompt neither drops a sibling's result nor makes batch_generate
\* fail.
C27_BatchGenerateCollectsAll ==
  [][\A r \in RunIds :
       (runs[r].op = "batch_generate" /\ runs[r].pc = "gather")
       => /\ \A i \in 1..Len(runs[r].results) :
               runs[r].results[i].done => runs'[r].results[i] = runs[r].results[i]
          /\ runs'[r].pc = "done"
             => /\ runs'[r].outcome = "returned"
                /\ reply'.outcome = "returned"
                /\ Len(reply'.value) = Len(runs[r].texts)
                /\ \A i \in 1..Len(runs[r].texts) :
                     reply'.value[i] \in { GenerateTextReturns(runs[r].texts[i]),
                                           GenerateTextRaises(runs[r].texts[i]) }]_vars

\* a returned batch in which one prompt failed and a later and an earlier
\* sibling have their results
C27_Witness ==
  /\ reply.op = "batch_generate" /\ reply.outcome = "returned"
  /\ \E i, j, k \in 1..Len(reply.value) :
       /\ i < j /\ j < k
       /\ ~reply.value[i].raised /\ reply.value[j].raised /\ ~reply.value[k].raised

\* ---------------------------------------------------- workflow updates
\* C28: update_workflow sets each of name, config, schedule and is_active
\* that the caller supplies to exactly the supplied value, an empty name or
\* an empty config included, and leaves every other field, every other
\* workflow and the execution history unchanged; for an unknown id it
\* reports not-found and changes nothing.
C28_UpdateWorkflowIsPartialUpdate ==
  [][reply'.op = "update_workflow"
     => LET w == reply'.workflow_id
            args == reply'.args
        IN /\ workflow_history' = workflow_history
           /\ IF w \in DOMAIN workflows
              THEN /\ reply'.found
                   /\ DOMAIN workflows' = DOMAIN workflows
                   /\ \A o \in DOMAIN workflows \ {w} : workflows'[o] = workflows[o]
                   /\ \A f \in DOMAIN workflows[w] :
                        workflows'[w][f] = IF f \in DOMAIN args THEN args[f]
                                           ELSE workflows[w][f]
              ELSE ~reply'.found /\ workflows' = workflows]_vars

\* C29: triggering an active workflow whose workflow_type is neither
\* auto_translate nor scheduled_post creates no Task, does not fail, and
\* appends a completed execution record whose result says that the type is
\* not implemented.
C29_UnknownTypeRecordsNotImplemented ==
  [][\A w \in WorkflowIdInputs :
       (TriggersActive(w)
        /\ workflows[w].workflow_type \notin {"auto_translate", "scheduled_post"})
       => /\ tasks' = tasks /\ runs' = runs
          /\ reply'.outcome = "returned"
          /\ Len(workflow_history') = Len(workflow_history) + 1
          /\ LET record == workflow_history'[Len(workflow_history')]
             IN /\ record.workflow_id = w
                /\ record.status = "completed"
                /\ record.result = "Workflow type not implemented"]_vars

\* ---------------------------------------------------- concurrent increment_usage
MaxCallers == 2

\* the requests that call increment_usage, each with a session of its own
UsageCallers == 1..MaxCallers

\* line 166: get_template loads the row into the caller's session, or finds
\* none and the call returns (line 167)
increment_usage_get(c, template_id) ==
  /\ runs[c].pc = "idle"
  /\ IF template_id \in DOMAIN templates
     THEN /\ templates[template_id].usage_count < MaxUsage
          /\ runs' = [runs EXCEPT ![c] =
                        [op |-> "increment_usage", pc |-> "loaded",
                         template_id |-> template_id,
                         template |-> templates[template_id]]]
     ELSE runs' = [runs EXCEPT ![c] =
                     [op |-> "increment_usage", pc |-> "done",
                      template_id |-> template_id, template |-> NoneVal]]
  /\ UNCHANGED <<tasks, jobs, contents, templates, admin_calls, automationVars, reply>>

\* lines 168-169 and ContentTemplate.increment_usage: usage_count += 1 on the
\* loaded object, and the commit writes the attribute that was assigned
increment_usage_commit(c) ==
  LET run == runs[c] IN
  /\ run.op = "increment_usage" /\ run.pc = "loaded"
  /\ templates' = [templates EXCEPT ![run.template_id].usage_count =
                                      run.template.usage_count + 1]
  /\ runs' = [runs EXCEPT ![c].pc = "done"]
  /\ UNCHANGED <<tasks, jobs, contents, admin_calls, automationVars, reply>>

InitIncrement ==
  /\ tasks = <<>>
  /\ jobs = <<>>
  /\ contents = <<>>
  /\ templates = InitTemplates
  /\ runs = [c \in UsageCallers |-> IdleRun]
  /\ admin_calls = 0
  /\ workflows = <<>>
  /\ workflow_history = <<>>
  /\ uuids = 0
  /\ reply = NoReply

NextIncrement ==
  \/ \E c \in UsageCallers, t \in TemplateIdInputs : increment_usage_get(c, t)
  \/ \E c \in UsageCallers : increment_usage_commit(c)
  \/ \E c \in UsageCallers : request_ends(c)

\* increment_usage calls of concurrent requests
SpecIncrement == InitIncrement /\ [][NextIncrement]_vars

\* C30: no increment of usage_count is lost: every increment_usage call that
\* found its template raises the stored usage_count by one when it commits,
\* so that two calls that both read the template before either committed
\* leave it at its previous value plus two.
C30_NoIncrementLost ==
  [][\A c \in UsageCallers :
       (runs[c].op = "increment_usage" /\ runs[c].pc = "loaded" /\ runs'[c].pc = "done")
       => templates'[runs[c].template_id].usage_count
            = templates[runs[c].template_id].usage_count + 1]_vars

====
